---- MODULE Spec2Model ----
(***************************************************************************)
(* A model of visread.process: the visibility averaging and normalisation  *)
(* helpers and the get_processed_visibilities pipeline.                    *)
(*                                                                         *)
(* The module is a library of pure functions.  One call is modelled as    *)
(* two positions: pc = "call" (the arguments are bound, the function has  *)
(* not run) and pc = "return" (ret holds what the call produced: a value, *)
(* or the exception it raised).  Init draws the function and its           *)
(* arguments; one action per function applies it.                          *)
(*                                                                         *)
(* Numbers are exact: a real is a reduced fraction <<n, d>>, a complex    *)
(* number a record [re, im] of fractions.  IEEE division by zero (numpy)  *)
(* gives <<1, 0>> (inf), <<-1, 0>> (-inf) or <<0, 0>> (nan).  Rounding is *)
(* not modelled.                                                           *)
(*                                                                         *)
(* An n-dimensional array is [shape |-> <<d1, ..., dk>>, v |-> f], f a    *)
(* function on the index tuples of the shape.  Index tuples are 1-based   *)
(* in the model; axes and the indexes a function returns (np.where) are   *)
(* 0-based, as in the source.                                              *)
(***************************************************************************)
EXTENDS Integers, Sequences, FiniteSets

VARIABLES fn, arg, ret, pc

vars == <<fn, arg, ret, pc>>

-----------------------------------------------------------------------------
(* Bounds of the model. *)

\* the longest channel-frequency axis drawn
MaxChan == 3

\* the longest visibility axis drawn
MaxVis == 2

-----------------------------------------------------------------------------
(* Exact arithmetic. *)

Abs(x) == IF x < 0 THEN -x ELSE x

Sign(x) == IF x < 0 THEN -1 ELSE IF x > 0 THEN 1 ELSE 0

RECURSIVE GCD(_, _)
GCD(a, b) == IF b = 0 THEN a ELSE GCD(b, a % b)

\* the fraction n/d in lowest terms, d > 0; n/0 is inf, -inf or nan
Frac(n, d) ==
    IF d = 0 THEN <<Sign(n), 0>>
    ELSE LET g == GCD(Abs(n), Abs(d))
         IN  <<Sign(d) * (n \div g), Abs(d) \div g>>

R(n) == <<n, 1>>

RAdd(a, b) == Frac(a[1] * b[2] + b[1] * a[2], a[2] * b[2])

\* a * b, cancelling across before multiplying
RMul(a, b) ==
    LET g1 == GCD(Abs(a[1]), Abs(b[2]))
        g2 == GCD(Abs(b[1]), Abs(a[2]))
        h1 == IF g1 = 0 THEN 1 ELSE g1
        h2 == IF g2 = 0 THEN 1 ELSE g2
    IN  Frac((a[1] \div h1) * (b[1] \div h2), (a[2] \div h2) * (b[2] \div h1))

\* a / b as IEEE floating point divides: x/0 is inf, -inf or nan, no exception
RDiv(a, b) == RMul(a, IF b[1] < 0 THEN <<-b[2], -b[1]>> ELSE <<b[2], b[1]>>)

C(re, im) == [re |-> R(re), im |-> R(im)]

CAdd(z, w) == [re |-> RAdd(z.re, w.re), im |-> RAdd(z.im, w.im)]

\* a complex number times a real
CMulR(z, r) == [re |-> RMul(z.re, r), im |-> RMul(z.im, r)]

\* a complex number over a real
CDivR(z, r) == [re |-> RDiv(z.re, r), im |-> RDiv(z.im, r)]

RECURSIVE RSum(_)
RSum(s) == IF s = <<>> THEN R(0) ELSE RAdd(Head(s), RSum(Tail(s)))

RECURSIVE CSum(_)
CSum(s) == IF s = <<>> THEN C(0, 0) ELSE CAdd(Head(s), CSum(Tail(s)))

RECURSIVE AnyTrue(_)
AnyTrue(s) == IF s = <<>> THEN FALSE ELSE Head(s) \/ AnyTrue(Tail(s))

-----------------------------------------------------------------------------
(* Arrays. *)

RECURSIVE Idx(_)
Idx(shape) ==
    IF shape = <<>> THEN {<<>>}
    ELSE {<<k>> \o r : k \in 1..Head(shape), r \in Idx(Tail(shape))}

NdArray(shape, F(_)) == [shape |-> shape, v |-> [i \in Idx(shape) |-> F(i)]]

\* a sequence as a one-dimensional array
FromSeq(s) == NdArray(<<Len(s)>>, LAMBDA i : s[i[1]])

\* np.ones(shape)
Ones(shape) == NdArray(shape, LAMBDA i : R(1))

Rank(a) == Len(a.shape)

\* the sequence s without its k-th entry (k is 1-based)
Without(s, k) == [j \in 1..(Len(s) - 1) |-> IF j < k THEN s[j] ELSE s[j + 1]]

\* the sequence s with x inserted as its k-th entry (k is 1-based)
With(s, k, x) ==
    [j \in 1..(Len(s) + 1) |-> IF j < k THEN s[j] ELSE IF j = k THEN x ELSE s[j - 1]]

\* a shape padded on the left with 1s to n dimensions
Pad(shape, n) ==
    [k \in 1..n |-> IF k <= n - Len(shape) THEN 1 ELSE shape[k - (n - Len(shape))]]

MaxOf(a, b) == IF a < b THEN b ELSE a

\* numpy's broadcasting rule: aligned from the right, each pair of dimensions
\* is equal or one of them is 1
Broadcastable(s1, s2) ==
    LET n == MaxOf(Len(s1), Len(s2))
    IN  \A k \in 1..n :
            \/ Pad(s1, n)[k] = Pad(s2, n)[k]
            \/ Pad(s1, n)[k] = 1
            \/ Pad(s2, n)[k] = 1

BroadcastShape(s1, s2) ==
    LET n == MaxOf(Len(s1), Len(s2))
    IN  [k \in 1..n |-> IF Pad(s1, n)[k] = 1 THEN Pad(s2, n)[k] ELSE Pad(s1, n)[k]]

\* the index of the operand of shape `shape` that a result index reads
BroadcastIndex(shape, i) ==
    [k \in 1..Len(shape) |->
        IF shape[k] = 1 THEN 1 ELSE i[k + (Len(i) - Len(shape))]]

\* an element-wise binary operation on two broadcastable arrays
Zip(a, b, Op(_, _)) ==
    NdArray(BroadcastShape(a.shape, b.shape),
            LAMBDA i : Op(a.v[BroadcastIndex(a.shape, i)],
                          b.v[BroadcastIndex(b.shape, i)]))

\* the entries of a along `axis` (0-based) at the remaining index i
Along(a, axis, i) == [k \in 1..a.shape[axis + 1] |-> a.v[With(i, axis + 1, k)]]

\* a reduction over `axis` (0-based) by Fold, which maps a sequence to a value
Reduce(a, axis, Fold(_)) ==
    NdArray(Without(a.shape, axis + 1), LAMBDA i : Fold(Along(a, axis, i)))

\* a[..., np.newaxis, ...]: a new axis of length 1 at position `axis` (0-based)
NewAxis(a, axis) ==
    NdArray(With(a.shape, axis + 1, 1), LAMBDA i : a.v[Without(i, axis + 1)])

\* a[..., ::-1, ...] and np.flip(a, axis): the order along `axis` reversed
Flip(a, axis) ==
    NdArray(a.shape,
            LAMBDA i : a.v[[i EXCEPT ![axis + 1] = a.shape[axis + 1] + 1 - i[axis + 1]]])

\* a[:, xc]: the entries along axis 1 at the 0-based indexes xc, in xc's order
TakeColumns(a, xc) ==
    NdArray([a.shape EXCEPT ![2] = Len(xc)],
            LAMBDA i : a.v[[i EXCEPT ![2] = xc[i[2]] + 1]])

\* an element-wise unary operation
Map(a, Op(_)) == NdArray(a.shape, LAMBDA i : Op(a.v[i]))

SeqReverse(s) == [k \in 1..Len(s) |-> s[Len(s) + 1 - k]]

-----------------------------------------------------------------------------
(* What a call produces: a value, or the exception it raised. *)

Ok(val) == [err |-> "none", info |-> <<>>, val |-> val]

Raise(kind, info) == [err |-> kind, info |-> info, val |-> <<>>]

\* Python values handed to a parameter that the function subscripts
PyTuple(items) == [kind |-> "tuple", items |-> items]

PyInt(n) == [kind |-> "int", items |-> <<n>>]

-----------------------------------------------------------------------------
(* The measurement-set query interface: one spectral window's contents. *)

\* the 0-based row-major position of index i in an array of shape `shape`
RECURSIVE Lin(_, _)
Lin(shape, i) ==
    IF shape = <<>> THEN 0
    ELSE LET n == Len(shape)
         IN  Lin(SubSeq(shape, 1, n - 1), SubSeq(i, 1, n - 1)) * shape[n] + (i[n] - 1)

\* the channel frequencies drawn, in Hz
FreqSet == {1000 * k : k \in 1..MaxChan}

ChanFreqs(minlen) == UNION {[1..n -> FreqSet] : n \in minlen..MaxChan}

\* a complex array whose every entry differs from every other: entry i holds
\* its own input position, so any reordering of the array shows
Tagged(shape) == NdArray(shape, LAMBDA i : C(Lin(shape, i) + 1, i[1] - 2 * i[Len(i)]))

\* what get_channels and query_datadescid return for one datadescid:
\* chan_freq [nchan], data, model_data and flag [npol, nchan, nvis],
\* uvw three [nvis] vectors, weight [npol, nvis], antenna1 and antenna2 [nvis]
Query(chan_freq, nvis, fmark, weight, ant1, ant2) ==
    LET shape == <<2, Len(chan_freq), nvis>>
    IN  [chan_freq  |-> chan_freq,
         data       |-> Tagged(shape),
         model_data |-> Map(Tagged(shape), LAMBDA z : [re |-> z.im, im |-> z.re]),
         flag       |-> NdArray(shape, LAMBDA i : fmark[i[2]]),
         uvw        |-> <<[i \in 1..nvis |-> i], [i \in 1..nvis |-> 3 * i],
                          [i \in 1..nvis |-> 0]>>,
         weight     |-> weight,
         antenna1   |-> ant1,
         antenna2   |-> ant2]

get_channels(q) == q.chan_freq

query_datadescid(q) == q

-----------------------------------------------------------------------------
(* ChannelOrderer *)

\* np.diff(chan_freq)
Diff(chan_freq) == [k \in 1..(Len(chan_freq) - 1) |-> chan_freq[k + 1] - chan_freq[k]]

\* isdecreasing with the comparisons not strict (diff <= 0, diff >= 0)
isdecreasing_NotStrict(chan_freq) ==
    LET nchan == Len(chan_freq)
        diff  == Diff(chan_freq)
    IN  IF nchan = 1 THEN Ok(TRUE)
        ELSE IF \A k \in DOMAIN diff : diff[k] <= 0 THEN Ok(TRUE)
        ELSE IF \A k \in DOMAIN diff : diff[k] >= 0 THEN Ok(FALSE)
        ELSE Raise("RuntimeError", <<"neither strictly decreasing nor strictly increasing">>)

isdecreasing(chan_freq) ==
    LET nchan == Len(chan_freq)
        diff  == Diff(chan_freq)
    IN  IF nchan = 1 THEN Ok(TRUE)
        ELSE IF \A k \in DOMAIN diff : diff[k] < 0 THEN Ok(TRUE)
        ELSE IF \A k \in DOMAIN diff : diff[k] > 0 THEN Ok(FALSE)
        ELSE Raise("RuntimeError", <<"neither strictly decreasing nor strictly increasing">>)

reverse_array(array, channel_axis) == Flip(array, channel_axis)

\* the reversal test with nchan > 2 for nchan > 1
NeedsReversal_OffByOne(chan_freq) == Len(chan_freq) > 2 /\ chan_freq[2] > chan_freq[1]

\* the test that decides whether the channels are reversed
NeedsReversal(chan_freq) == Len(chan_freq) > 1 /\ chan_freq[2] > chan_freq[1]

get_channel_sorted_data(q) ==
    LET chan_freq  == get_channels(q)
        query      == query_datadescid(q)
    IN  IF NeedsReversal(chan_freq)
        THEN Ok([chan_freq  |-> SeqReverse(chan_freq),
                 data       |-> Flip(query.data, 1),
                 model_data |-> Flip(query.model_data, 1),
                 flag       |-> Flip(query.flag, 1)])
        ELSE Ok([chan_freq  |-> chan_freq,
                 data       |-> query.data,
                 model_data |-> query.model_data,
                 flag       |-> query.flag])

-----------------------------------------------------------------------------
(* WeightOps *)

IsArray(x) == "shape" \in DOMAIN x

\* a Python float (not a numpy value)
PyFloat(r) == [float |-> r]

\* weight / (sigma_rescale**2).  sigma_rescale is a Python float.  A numpy
\* array over a zero float divides as IEEE does (inf, nan; a RuntimeWarning, no
\* exception); a Python float over a zero float raises ZeroDivisionError.
rescale_weights(weight, sigma_rescale) ==
    LET square == RMul(sigma_rescale, sigma_rescale)
    IN  IF IsArray(weight) THEN Ok(Map(weight, LAMBDA x : RDiv(x, square)))
        ELSE IF square[1] = 0 THEN Raise("ZeroDivisionError", <<>>)
        ELSE Ok(PyFloat(RDiv(weight.float, square)))

-----------------------------------------------------------------------------
(* BroadcastOps *)

\* data_shape[chan_axis]: subscripting a tuple, or an int (a TypeError)
Subscript(data_shape, chan_axis) ==
    IF data_shape.kind # "tuple" THEN Raise("TypeError", <<>>)
    ELSE IF chan_axis >= Len(data_shape.items) THEN Raise("IndexError", <<>>)
    ELSE Ok(data_shape.items[chan_axis + 1])

\* weight[np.newaxis, :] * np.ones((nchan, 1))
BroadcastProduct(weight, nchan) ==
    LET broadcast == Ones(<<nchan, 1>>)
        lifted    == NewAxis(weight, 0)
    IN  IF Broadcastable(lifted.shape, broadcast.shape)
        THEN Ok(Zip(lifted, broadcast, RMul))
        ELSE Raise("ValueError", <<lifted.shape, broadcast.shape>>)

broadcast_weights(weight, data_shape, chan_axis) ==
    LET nchan == Subscript(data_shape, chan_axis)
    IN  IF nchan.err # "none" THEN nchan ELSE BroadcastProduct(weight, nchan.val)

\* astropy.constants.c.value, in m/s
c_value == 299792458

\* 1e-3
milli == <<1, 1000>>

\* baselines and freq are scalars here
convert_baselines(baselines, freq) ==
    LET wavelengths == RDiv(R(c_value), freq)
    IN  RDiv(RMul(milli, baselines), wavelengths)

\* the wavelengths all taken from the first channel
Wavelengths_FirstChannel(chan_freq) ==
    Map(NewAxis(FromSeq(chan_freq), 1), LAMBDA f : RDiv(R(c_value), R(chan_freq[1])))

\* the row of wavelengths each row of the broadcast baselines is divided by
Wavelengths(chan_freq) ==
    Map(NewAxis(FromSeq(chan_freq), 1), LAMBDA f : RDiv(R(c_value), R(f)))

\* one of u, v: broadcast to [nchan, nvis], then converted row by row
BroadcastConvert(u, chan_freq) ==
    LET nchan       == Len(chan_freq)
        broadcast   == Ones(<<nchan, 1>>)
        uu          == Zip(Map(FromSeq(u), LAMBDA x : R(x)), broadcast, RMul)
        wavelengths == Wavelengths(chan_freq)
    IN  Zip(Map(uu, LAMBDA x : RMul(milli, x)), wavelengths, RDiv)

broadcast_and_convert_baselines(u, v, chan_freq) ==
    Ok(<<BroadcastConvert(u, chan_freq), BroadcastConvert(v, chan_freq)>>)

-----------------------------------------------------------------------------
(* PolarizationReducer *)

\* np.sum(weight, axis=polarization_axis)
average_weight_polarization(weight, polarization_axis) ==
    IF polarization_axis >= Rank(weight) THEN Raise("AxisError", <<>>)
    ELSE Ok(Reduce(weight, polarization_axis, RSum))

\* np.any(flag, axis=polarization_axis)
average_flag_polarization(flag, polarization_axis) ==
    IF polarization_axis >= Rank(flag) THEN Raise("AxisError", <<>>)
    ELSE Ok(Reduce(flag, polarization_axis, AnyTrue))

\* the sum taken of the data alone, the weights forgotten
WeightedSum_Unweighted(data, weight, norm, polarization_axis) ==
    LET sum == Reduce(data, polarization_axis, CSum)
    IN  IF ~Broadcastable(sum.shape, norm.shape)
        THEN Raise("ValueError", <<sum.shape, norm.shape>>)
        ELSE Ok(Zip(sum, norm, CDivR))

\* np.sum(data * weight, axis=polarization_axis) / norm, where the operands of
\* * and of / must broadcast (a ValueError otherwise)
WeightedSum(data, weight, norm, polarization_axis) ==
    IF ~Broadcastable(data.shape, weight.shape)
    THEN Raise("ValueError", <<data.shape, weight.shape>>)
    ELSE LET sum == Reduce(Zip(data, weight, CMulR), polarization_axis, CSum)
         IN  IF ~Broadcastable(sum.shape, norm.shape)
             THEN Raise("ValueError", <<sum.shape, norm.shape>>)
             ELSE Ok(Zip(sum, norm, CDivR))

\* the second convention taken for any weight of one dimension fewer
ShapeConvention_AnyRank(data, weight) ==
    IF Rank(data) = Rank(weight) THEN "same_rank"
    ELSE IF Rank(data) = Rank(weight) + 1 THEN "weight_not_channelized"
    ELSE "unknown"

\* which of the two recognised shape conventions data and weight are in
ShapeConvention(data, weight) ==
    IF Rank(data) = Rank(weight) THEN "same_rank"
    ELSE IF Rank(data) = 3 /\ Rank(weight) = 2 THEN "weight_not_channelized"
    ELSE "unknown"

average_data_polarization(data, weight, polarization_axis) ==
    IF polarization_axis >= Rank(data) THEN Raise("IndexError", <<>>)
    ELSE IF data.shape[polarization_axis + 1] # 2
    THEN Raise("AssertionError", <<>>)
    ELSE LET norm == average_weight_polarization(weight, polarization_axis)
         IN  IF norm.err # "none" THEN norm
             ELSE CASE ShapeConvention(data, weight) = "same_rank" ->
                         WeightedSum(data, weight, norm.val, polarization_axis)
                    [] ShapeConvention(data, weight) = "weight_not_channelized" ->
                         WeightedSum(data, NewAxis(weight, 1), norm.val, polarization_axis)
                    [] OTHER ->
                         Raise("RuntimeError", <<data.shape, weight.shape>>)

-----------------------------------------------------------------------------
(* CorrelationFilter *)

contains_autocorrelations(ant1, ant2) ==
    Ok(Cardinality({i \in DOMAIN ant1 : ant1[i] = ant2[i]}) > 0)

\* whether baseline i (1-based) is kept
IsCross(ant1, ant2, i) == ant1[i] # ant2[i]

\* np.where(mask)[0] over the first n baselines: the 0-based indexes kept
RECURSIVE Where(_, _, _)
Where(ant1, ant2, n) ==
    IF n = 0 THEN <<>>
    ELSE IF IsCross(ant1, ant2, n) THEN Append(Where(ant1, ant2, n - 1), n - 1)
    ELSE Where(ant1, ant2, n - 1)

get_crosscorrelation_indexes(ant1, ant2) == Ok(Where(ant1, ant2, Len(ant1)))

-----------------------------------------------------------------------------
(* Pipeline *)

\* Three helpers get_processed_visibilities calls are not defined in
\* process.py; they are taken from the specification's pipeline steps 3, 5, 6.

broadcast_baselines(u, v, chan_freq) == broadcast_and_convert_baselines(u, v, chan_freq)

average_polarizations(data, flag, weight, model_data) ==
    LET d == average_data_polarization(data, weight, 0)
        f == average_flag_polarization(flag, 0)
        w == average_weight_polarization(weight, 0)
        m == average_data_polarization(model_data, weight, 0)
    IN  IF d.err # "none" THEN d
        ELSE IF f.err # "none" THEN f
        ELSE IF w.err # "none" THEN w
        ELSE IF m.err # "none" THEN m
        ELSE Ok(<<d.val, f.val, w.val, m.val>>)

get_crosscorrelation_mask(ant1, ant2) == get_crosscorrelation_indexes(ant1, ant2)

\* np.conj
Conj(z) == [re |-> z.re, im |-> <<-z.im[1], z.im[2]>>]

\* lines 286-312: select the cross-correlations, conjugate, assemble the record
AssembleRecord(chan_freq, uu, vv, avg, xc) ==
    [frequencies |-> chan_freq,
     uu          |-> TakeColumns(uu, xc),
     vv          |-> TakeColumns(vv, xc),
     data        |-> Map(TakeColumns(avg[1], xc), Conj),
     model_data  |-> Map(TakeColumns(avg[4], xc), Conj),
     flag        |-> TakeColumns(avg[2], xc),
     weight      |-> TakeColumns(avg[3], xc)]

\* the weight step: the channel count itself is handed to broadcast_weights
\* where it expects the data's shape
PipelineWeights(weight, nchan, sigma_rescale) ==
    LET broadcast == broadcast_weights(weight, PyInt(nchan), 0)
    IN  IF broadcast.err # "none" THEN broadcast
        ELSE rescale_weights(broadcast.val, sigma_rescale)

get_processed_visibilities(q, sigma_rescale) ==
    LET sorted    == get_channel_sorted_data(q)
        chan_freq == sorted.val.chan_freq
        nchan     == Len(chan_freq)
        query     == query_datadescid(q)
        baselines == broadcast_baselines(query.uvw[1], query.uvw[2], chan_freq)
        weight    == PipelineWeights(query.weight, nchan, sigma_rescale)
        avg       == average_polarizations(sorted.val.data, sorted.val.flag,
                                           weight.val, sorted.val.model_data)
        xc        == get_crosscorrelation_mask(query.antenna1, query.antenna2)
    IN  IF sorted.err # "none" THEN sorted
        ELSE IF baselines.err # "none" THEN baselines
        ELSE IF weight.err # "none" THEN weight
        ELSE IF avg.err # "none" THEN avg
        ELSE IF xc.err # "none" THEN xc
        ELSE Ok(AssembleRecord(chan_freq, baselines.val[1], baselines.val[2],
                               avg.val, xc.val))

-----------------------------------------------------------------------------
(* Calls of the ChannelOrderer. *)

WeightVals == {0, 1, 2}

\* a [npol, nvis] weight whose entries all differ
TaggedWeight(nvis) == NdArray(<<2, nvis>>, LAMBDA i : R(Lin(<<2, nvis>>, i) + 1))

InitChannels ==
    /\ pc = "call"
    /\ ret = Ok(<<>>)
    /\ \/ /\ fn = "isdecreasing"
          /\ \E f \in ChanFreqs(0) : arg = [chan_freq |-> f]
       \/ /\ fn = "get_channel_sorted_data"
          /\ \E f \in ChanFreqs(1), nvis \in 1..MaxVis :
               \E fmark \in [1..Len(f) -> BOOLEAN] :
                 arg = [query |-> Query(f, nvis, fmark, TaggedWeight(nvis),
                                        [i \in 1..nvis |-> 0], [i \in 1..nvis |-> i])]

Call_isdecreasing ==
    /\ pc = "call" /\ fn = "isdecreasing"
    /\ ret' = isdecreasing(arg.chan_freq)
    /\ pc' = "return"
    /\ UNCHANGED <<fn, arg>>

Call_get_channel_sorted_data ==
    /\ pc = "call" /\ fn = "get_channel_sorted_data"
    /\ ret' = get_channel_sorted_data(arg.query)
    /\ pc' = "return"
    /\ UNCHANGED <<fn, arg>>

NextChannels == Call_isdecreasing \/ Call_get_channel_sorted_data

SpecChannels == InitChannels /\ [][NextChannels]_vars

-----------------------------------------------------------------------------
(* Calls of the CorrelationFilter and of the pipeline. *)

\* antenna ids
AntSet == {0, 1, 2}

AntSeqs(n) == [1..n -> AntSet]

SigmaVals == {R(1), R(2)}

InitPipeline ==
    /\ pc = "call"
    /\ ret = Ok(<<>>)
    /\ \/ /\ fn \in {"get_crosscorrelation_indexes", "contains_autocorrelations"}
          /\ \E n \in 0..(MaxVis + 1) : \E ant1 \in AntSeqs(n), ant2 \in AntSeqs(n) :
               arg = [ant1 |-> ant1, ant2 |-> ant2]
       \/ /\ fn = "get_processed_visibilities"
          /\ \E f \in ChanFreqs(1), nvis \in 1..MaxVis, sigma \in SigmaVals :
               \E ant1 \in [1..nvis -> {0, 1}], ant2 \in [1..nvis -> {0, 1}] :
                 arg = [query |-> Query(f, nvis, [c \in 1..Len(f) |-> c % 2 = 1],
                                        TaggedWeight(nvis), ant1, ant2),
                        sigma_rescale |-> sigma]

Call_contains_autocorrelations ==
    /\ pc = "call" /\ fn = "contains_autocorrelations"
    /\ ret' = contains_autocorrelations(arg.ant1, arg.ant2)
    /\ pc' = "return"
    /\ UNCHANGED <<fn, arg>>

Call_get_crosscorrelation_indexes ==
    /\ pc = "call" /\ fn = "get_crosscorrelation_indexes"
    /\ ret' = get_crosscorrelation_indexes(arg.ant1, arg.ant2)
    /\ pc' = "return"
    /\ UNCHANGED <<fn, arg>>

Call_get_processed_visibilities ==
    /\ pc = "call" /\ fn = "get_processed_visibilities"
    /\ ret' = get_processed_visibilities(arg.query, arg.sigma_rescale)
    /\ pc' = "return"
    /\ UNCHANGED <<fn, arg>>

NextPipeline ==
    \/ Call_contains_autocorrelations
    \/ Call_get_crosscorrelation_indexes
    \/ Call_get_processed_visibilities

SpecPipeline == InitPipeline /\ [][NextPipeline]_vars

-----------------------------------------------------------------------------
(* Calls of the PolarizationReducer. *)

\* every real array of a shape over the weights drawn
WeightArrays(shape) ==
    {NdArray(shape, LAMBDA i : R(f[i])) : f \in [Idx(shape) -> WeightVals]}

\* real arrays of a shape whose entries start at a and step by k
PatternWeights(shape) ==
    {NdArray(shape, LAMBDA i : R(a + k * Lin(shape, i))) : a \in WeightVals, k \in WeightVals}

\* every shape of rank 1 to 3 with dimensions up to MaxVis + 1
DimSet == 1..(MaxVis + 1)

Shapes == UNION {[1..r -> DimSet] : r \in 1..3}

InitPolarization ==
    /\ pc = "call"
    /\ ret = Ok(<<>>)
    /\ fn = "average_data_polarization"
    /\ \/ \E ds \in Shapes, ws \in Shapes, axis \in {0, 1} :
            arg = [data |-> Tagged(ds), weight |-> NdArray(ws, LAMBDA i : R(Lin(ws, i) + 1)),
                   polarization_axis |-> axis]
       \/ \E nvis \in 1..MaxVis : \E w \in WeightArrays(<<2, nvis>>) :
            \/ arg = [data |-> Tagged(<<2, nvis>>), weight |-> w, polarization_axis |-> 0]
            \/ \E nchan \in 1..MaxChan :
                 arg = [data |-> Tagged(<<2, nchan, nvis>>), weight |-> w,
                        polarization_axis |-> 0]
       \/ \E nvis \in 1..MaxVis, nchan \in 1..MaxChan :
            \E w \in PatternWeights(<<2, nchan, nvis>>) :
              arg = [data |-> Tagged(<<2, nchan, nvis>>), weight |-> w,
                     polarization_axis |-> 0]

Call_average_data_polarization ==
    /\ pc = "call" /\ fn = "average_data_polarization"
    /\ ret' = average_data_polarization(arg.data, arg.weight, arg.polarization_axis)
    /\ pc' = "return"
    /\ UNCHANGED <<fn, arg>>

NextPolarization == Call_average_data_polarization

SpecPolarization == InitPolarization /\ [][NextPolarization]_vars

-----------------------------------------------------------------------------
(* Calls of the WeightOps and of broadcast_weights. *)

\* sigma_rescale drawn for rescale_weights: 0, 1/2, 1, 2
RescaleVals == {R(0), <<1, 2>>, R(1), R(2)}

InitWeights ==
    /\ pc = "call"
    /\ ret = Ok(<<>>)
    /\ \/ /\ fn = "broadcast_weights"
          /\ \E nvis \in 1..MaxVis, nchan \in 1..MaxChan :
               \/ \E w \in WeightArrays(<<nvis>>) :
                    \/ arg = [weight |-> w, data_shape |-> PyTuple(<<nchan, nvis>>),
                              chan_axis |-> 0]
                    \/ arg = [weight |-> w, data_shape |-> PyInt(nchan), chan_axis |-> 0]
               \/ \E npol \in 1..2 : \E w \in PatternWeights(<<npol, nvis>>) :
                    \/ arg = [weight |-> w, data_shape |-> PyTuple(<<npol, nchan, nvis>>),
                              chan_axis |-> 1]
                    \/ arg = [weight |-> w, data_shape |-> PyInt(nchan), chan_axis |-> 0]
       \/ /\ fn = "rescale_weights"
          /\ \E sigma \in RescaleVals :
               \/ \E x \in WeightVals :
                    arg = [weight |-> PyFloat(R(x)), sigma_rescale |-> sigma]
               \/ \E nvis \in 1..MaxVis : \E w \in WeightArrays(<<nvis>>) :
                    arg = [weight |-> w, sigma_rescale |-> sigma]

Call_broadcast_weights ==
    /\ pc = "call" /\ fn = "broadcast_weights"
    /\ ret' = broadcast_weights(arg.weight, arg.data_shape, arg.chan_axis)
    /\ pc' = "return"
    /\ UNCHANGED <<fn, arg>>

Call_rescale_weights ==
    /\ pc = "call" /\ fn = "rescale_weights"
    /\ ret' = rescale_weights(arg.weight, arg.sigma_rescale)
    /\ pc' = "return"
    /\ UNCHANGED <<fn, arg>>

NextWeights == Call_broadcast_weights \/ Call_rescale_weights

SpecWeights == InitWeights /\ [][NextWeights]_vars

-----------------------------------------------------------------------------
(* Calls of the baseline conversion. *)

\* baseline lengths drawn, in m
BaselineSet == {0, 1, 1000}

InitBaselines ==
    /\ pc = "call"
    /\ ret = Ok(<<>>)
    /\ \/ /\ fn = "convert_baselines"
          /\ \E b \in BaselineSet, f \in FreqSet :
               arg = [baselines |-> R(b), freq |-> R(f)]
       \/ /\ fn = "broadcast_and_convert_baselines"
          /\ \E nvis \in 1..MaxVis, f \in ChanFreqs(1) :
               \E u \in [1..nvis -> BaselineSet] :
                 \/ arg = [u |-> u, v |-> [i \in 1..nvis |-> 1000], chan_freq |-> f]
                 \/ arg = [u |-> u, v |-> [i \in 1..nvis |-> u[i] + i], chan_freq |-> f]

Call_convert_baselines ==
    /\ pc = "call" /\ fn = "convert_baselines"
    /\ ret' = Ok(convert_baselines(arg.baselines, arg.freq))
    /\ pc' = "return"
    /\ UNCHANGED <<fn, arg>>

Call_broadcast_and_convert_baselines ==
    /\ pc = "call" /\ fn = "broadcast_and_convert_baselines"
    /\ ret' = broadcast_and_convert_baselines(arg.u, arg.v, arg.chan_freq)
    /\ pc' = "return"
    /\ UNCHANGED <<fn, arg>>

NextBaselines == Call_convert_baselines \/ Call_broadcast_and_convert_baselines

SpecBaselines == InitBaselines /\ [][NextBaselines]_vars

-----------------------------------------------------------------------------
(* Properties. *)

Returned(name) == pc = "return" /\ fn = name

StrictlyDecreasing(f) == \A k \in 1..(Len(f) - 1) : f[k + 1] < f[k]

StrictlyIncreasing(f) == \A k \in 1..(Len(f) - 1) : f[k + 1] > f[k]

StrictlyMonotonic(f) == StrictlyDecreasing(f) \/ StrictlyIncreasing(f)

\* the input channel whose frequency is freq (frequencies all differ)
ChannelOf(f, freq) == CHOOSE j \in 1..Len(f) : f[j] = freq

\* array `out` holds at every channel c the slice of `in` at channel src[c]
ChannelsFrom(out, in, src) ==
    /\ out.shape = in.shape
    /\ \A i \in Idx(out.shape) : out.v[i] = in.v[[i EXCEPT ![2] = src[i[2]]]]

\* C1: for every strictly monotonic chan_freq with more than one channel,
\* get_channel_sorted_data returns strictly decreasing frequencies (the input
\* frequencies, reordered), and data, model_data and flag hold at every output
\* channel c the input slice of the channel whose frequency is frequencies[c];
\* a strictly decreasing input is returned unchanged.
C1_ChannelsCanonical ==
    (Returned("get_channel_sorted_data")
        /\ Len(arg.query.chan_freq) > 1 /\ StrictlyMonotonic(arg.query.chan_freq)) =>
    LET q   == arg.query
        out == ret.val
        src == [c \in 1..Len(q.chan_freq) |-> ChannelOf(q.chan_freq, out.chan_freq[c])]
    IN  /\ ret.err = "none"
        /\ Len(out.chan_freq) = Len(q.chan_freq)
        /\ StrictlyDecreasing(out.chan_freq)
        /\ {out.chan_freq[c] : c \in 1..Len(out.chan_freq)}
             = {q.chan_freq[c] : c \in 1..Len(q.chan_freq)}
        /\ ChannelsFrom(out.data, q.data, src)
        /\ ChannelsFrom(out.model_data, q.model_data, src)
        /\ ChannelsFrom(out.flag, q.flag, src)
        /\ StrictlyDecreasing(q.chan_freq) =>
             /\ out.chan_freq = q.chan_freq
             /\ out.data = q.data
             /\ out.model_data = q.model_data
             /\ out.flag = q.flag

\* C1's case: three increasing channels were reversed
C1_Witness ==
    /\ Returned("get_channel_sorted_data")
    /\ arg.query.chan_freq = <<1000, 2000, 3000>>
    /\ ret.val.chan_freq = <<3000, 2000, 1000>>
    /\ ret.val.data # arg.query.data

\* C2: a chan_freq that is neither strictly increasing nor strictly decreasing
\* makes get_channel_sorted_data signal an error and return no record.
C2_NonMonotonicRejected ==
    (Returned("get_channel_sorted_data")
        /\ Len(arg.query.chan_freq) > 1 /\ ~StrictlyMonotonic(arg.query.chan_freq)) =>
    ret.err # "none"

\* C9: isdecreasing returns True for every sequence of length <= 1, True when
\* every neighbour is strictly smaller, False when every neighbour is strictly
\* greater, and raises for every other sequence; it returns no boolean for a
\* non-monotonic sequence.
C9_IsDecreasingTotal ==
    Returned("isdecreasing") =>
    LET f == arg.chan_freq
    IN  /\ Len(f) <= 1 => (ret.err = "none" /\ ret.val = TRUE)
        /\ (Len(f) >= 2 /\ StrictlyDecreasing(f)) => (ret.err = "none" /\ ret.val = TRUE)
        /\ (Len(f) >= 2 /\ StrictlyIncreasing(f)) => (ret.err = "none" /\ ret.val = FALSE)
        /\ (Len(f) >= 2 /\ ~StrictlyMonotonic(f)) => ret.err = "RuntimeError"

\* C9's case: a sequence with two equal neighbours raised
C9_Witness ==
    /\ Returned("isdecreasing")
    /\ arg.chan_freq = <<2000, 1000, 1000>>
    /\ ret.err = "RuntimeError"

\* the 0-based indexes of the cross-correlation baselines, in increasing order
RECURSIVE CrossUpTo(_, _, _)
CrossUpTo(ant1, ant2, n) ==
    IF n = 0 THEN <<>>
    ELSE CrossUpTo(ant1, ant2, n - 1)
           \o (IF ant1[n] = ant2[n] THEN <<>> ELSE <<n - 1>>)

\* C3: the cross-correlation filter returns exactly the indexes i with
\* antenna1[i] # antenna2[i], in increasing order, and the pipeline's record
\* holds, in each of uu, vv, data, model_data, flag and weight, one column per
\* such baseline, in the input order.
C3_AutocorrelationsRemoved ==
    /\ Returned("get_crosscorrelation_indexes") =>
         /\ ret.err = "none"
         /\ ret.val = CrossUpTo(arg.ant1, arg.ant2, Len(arg.ant1))
    /\ (Returned("get_processed_visibilities")
           /\ StrictlyMonotonic(arg.query.chan_freq)) =>
         LET q  == arg.query
             xc == CrossUpTo(q.antenna1, q.antenna2, Len(q.antenna1))
         IN  /\ ret.err = "none"
             /\ \A name \in {"uu", "vv", "data", "model_data", "flag", "weight"} :
                    ret.val[name].shape = <<Len(q.chan_freq), Len(xc)>>
             /\ \A c \in 1..Len(q.chan_freq), k \in 1..Len(xc) :
                    ret.val.uu.v[<<c, k>>]
                      = convert_baselines(R(q.uvw[1][xc[k] + 1]), R(ret.val.frequencies[c]))

\* the weighted mean of two complex values
WeightedMean(d1, w1, d2, w2) == CDivR(CAdd(CMulR(d1, w1), CMulR(d2, w2)), RAdd(w1, w2))

\* C4: the record of get_processed_visibilities holds, for every channel c and
\* every retained baseline i, weight = (weight[0,i] + weight[1,i]) /
\* sigma_rescale^2 and data = the conjugate of the weighted mean of the two
\* polarizations of the input data at that channel and baseline.
C4_RecordValues ==
    (Returned("get_processed_visibilities") /\ StrictlyMonotonic(arg.query.chan_freq)) =>
    LET q     == arg.query
        xc    == CrossUpTo(q.antenna1, q.antenna2, Len(q.antenna1))
        nchan == Len(q.chan_freq)
        src   == [c \in 1..nchan |-> ChannelOf(q.chan_freq, ret.val.frequencies[c])]
        sq    == RMul(arg.sigma_rescale, arg.sigma_rescale)
    IN  /\ ret.err = "none"
        /\ \A c \in 1..nchan, k \in 1..Len(xc) :
             LET i  == xc[k] + 1
                 w1 == q.weight.v[<<1, i>>]
                 w2 == q.weight.v[<<2, i>>]
             IN  /\ ret.val.weight.v[<<c, k>>] = RDiv(RAdd(w1, w2), sq)
                 /\ ret.val.data.v[<<c, k>>]
                      = Conj(WeightedMean(q.data.v[<<1, src[c], i>>], w1,
                                          q.data.v[<<2, src[c], i>>], w2))
                 /\ ret.val.model_data.v[<<c, k>>]
                      = Conj(WeightedMean(q.model_data.v[<<1, src[c], i>>], w1,
                                          q.model_data.v[<<2, src[c], i>>], w2))

\* C5: for dual-polarization data, average_data_polarization returns at every
\* entry whose summed weight is not zero the weighted mean over the
\* polarization axis: (a) with a weight of the data's shape, entry by entry;
\* (b) with data [2, nchan, nvis] and weight [2, nvis], result[c, i] =
\* (data[0,c,i]*weight[0,i] + data[1,c,i]*weight[1,i]) / (weight[0,i] + weight[1,i]).
C5_WeightedMean ==
    Returned("average_data_polarization") =>
    LET d    == arg.data
        w    == arg.weight
        axis == arg.polarization_axis
    IN  /\ (axis < Rank(d) /\ d.shape[axis + 1] = 2 /\ w.shape = d.shape) =>
             /\ ret.err = "none"
             /\ ret.val.shape = Without(d.shape, axis + 1)
             /\ \A i \in Idx(ret.val.shape) :
                  LET i1 == With(i, axis + 1, 1)
                      i2 == With(i, axis + 1, 2)
                  IN  RAdd(w.v[i1], w.v[i2]) # R(0) =>
                        ret.val.v[i] = WeightedMean(d.v[i1], w.v[i1], d.v[i2], w.v[i2])
        /\ (axis = 0 /\ Rank(d) = 3 /\ d.shape[1] = 2 /\ w.shape = <<2, d.shape[3]>>) =>
             /\ ret.err = "none"
             /\ ret.val.shape = <<d.shape[2], d.shape[3]>>
             /\ \A c \in 1..d.shape[2], i \in 1..d.shape[3] :
                  RAdd(w.v[<<1, i>>], w.v[<<2, i>>]) # R(0) =>
                    ret.val.v[<<c, i>>]
                      = WeightedMean(d.v[<<1, c, i>>], w.v[<<1, i>>],
                                     d.v[<<2, c, i>>], w.v[<<2, i>>])

\* C5's case: channelized data averaged with unequal non-channelized weights
C5_Witness ==
    /\ Returned("average_data_polarization")
    /\ arg.data.shape = <<2, 2, 2>>
    /\ arg.weight.shape = <<2, 2>>
    /\ arg.weight.v[<<1, 1>>] = R(1)
    /\ arg.weight.v[<<2, 1>>] = R(2)
    /\ ret.err = "none"
    /\ ret.val.v[<<2, 1>>] \notin {arg.data.v[<<1, 2, 1>>], arg.data.v[<<2, 2, 1>>]}

C7_BroadcastWeights ==
    (Returned("broadcast_weights") /\ arg.data_shape.kind = "tuple") =>
    LET w     == arg.weight
        nchan == arg.data_shape.items[arg.chan_axis + 1]
    IN  /\ ret.err = "none"
        /\ Rank(w) = 1 =>
             /\ ret.val.shape = <<nchan, w.shape[1]>>
             /\ \A c \in 1..nchan, i \in 1..w.shape[1] :
                  ret.val.v[<<c, i>>] = w.v[<<i>>]
        /\ Rank(w) = 2 =>
             /\ ret.val.shape = <<w.shape[1], nchan, w.shape[2]>>
             /\ \A p \in 1..w.shape[1], c \in 1..nchan, i \in 1..w.shape[2] :
                  ret.val.v[<<p, c, i>>] = w.v[<<p, i>>]

\* C8: rescale_weights returns weight / sigma_rescale^2 entry by entry for
\* every non-zero sigma_rescale, and raises for sigma_rescale = 0, for a
\* scalar and for an array weight alike.
C8_RescaleWeights ==
    Returned("rescale_weights") =>
    LET w  == arg.weight
        sq == RMul(arg.sigma_rescale, arg.sigma_rescale)
    IN  IF arg.sigma_rescale = R(0) THEN ret.err # "none"
        ELSE /\ ret.err = "none"
             /\ IsArray(w) =>
                  /\ ret.val.shape = w.shape
                  /\ \A i \in Idx(w.shape) : ret.val.v[i] = RDiv(w.v[i], sq)
             /\ ~IsArray(w) => ret.val.float = RDiv(w.float, sq)

\* 1e-3 * baseline * freq / speed_of_light
Kilolambda(baseline, freq) ==
    RDiv(RMul(RMul(milli, R(baseline)), R(freq)), R(c_value))

\* C10: broadcast_and_convert_baselines returns uu and vv of shape
\* [nchan, nvis] with uu[c, i] = convert_baselines(u[i], chan_freq[c]) and
\* vv[c, i] = convert_baselines(v[i], chan_freq[c]), each equal to
\* 1e-3 * baseline * freq / speed_of_light.
C10_BaselinesPerChannel ==
    Returned("broadcast_and_convert_baselines") =>
    LET f     == arg.chan_freq
        nchan == Len(f)
        nvis  == Len(arg.u)
        uu    == ret.val[1]
        vv    == ret.val[2]
    IN  /\ ret.err = "none"
        /\ uu.shape = <<nchan, nvis>>
        /\ vv.shape = <<nchan, nvis>>
        /\ \A c \in 1..nchan, i \in 1..nvis :
             /\ uu.v[<<c, i>>] = convert_baselines(R(arg.u[i]), R(f[c]))
             /\ vv.v[<<c, i>>] = convert_baselines(R(arg.v[i]), R(f[c]))
             /\ uu.v[<<c, i>>] = Kilolambda(arg.u[i], f[c])
             /\ vv.v[<<c, i>>] = Kilolambda(arg.v[i], f[c])

\* C10's case: two channels of different frequency, a baseline of 1000 m
C10_Witness ==
    /\ Returned("broadcast_and_convert_baselines")
    /\ arg.chan_freq = <<1000, 3000>>
    /\ arg.u = <<1000, 1>>
    /\ ret.val[1].v[<<1, 1>>] # ret.val[1].v[<<2, 1>>]
    /\ ret.val[1].v[<<2, 1>>] = <<1500, 149896229>>

====
